---- MODULE Spec2Model ----
(***************************************************************************)
(* Block-iterable range protocol and parallel materialization              *)
(* (parlay/internal/delayed/common.h).                                     *)
(*                                                                         *)
(* A range is a record [ra, bi, n, lens]:                                  *)
(*   ra   - is_random_access_range_v                                       *)
(*   bi   - is_block_iterable_range_v (the range has its own accessors)    *)
(*   n    - parlay::size(r)                                                *)
(*   lens - the lengths of the blocks its own accessors report             *)
(* Iterators are offsets from std::begin(r); the element at offset p is    *)
(* ElemOf(r, p).  Sizes stay far below 2^64, so size_t arithmetic does not *)
(* wrap and is modelled by the naturals.  The typed overloads              *)
(* to_sequence<T, Alloc> run the same algorithm as the untyped ones and    *)
(* share their model.                                                      *)
(***************************************************************************)
EXTENDS Naturals, Integers, Sequences, FiniteSets

VARIABLES
  r,        \* the range / view handed to the operation
  pc,       \* position of the calling thread
  sz,       \* to_sequence: sz
  out,      \* to_sequence: out (1-based sequence, slot j is out[j+1])
  wcount,   \* per slot of out: number of initializing writes received
  oob,      \* output indices written outside the storage of out
  task,     \* the block-copy tasks issued by parallel_for
  lastw,    \* index of the task that made the latest copy step (or NoTask)
  result,   \* the container returned to the caller
  q,        \* answer of the last block-protocol query
  again,    \* the container to_sequence returns when applied to result
  own,      \* a view over an underlying range, and that range
  sieve,    \* the call of primes
  path      \* the overload that the latest call selected

vars == <<r, pc, sz, out, wcount, oob, task, lastw, result, q, again, own,
          sieve, path>>

\* ------------------------------------------------------------------------
\* Bounds of the model
\* ------------------------------------------------------------------------

\* largest number of blocks of a block-iterable view
MaxBlocks == 2

\* std::uninitialized_copy copies element by element; the model groups up to
\* CopyChunk consecutive element copies of one task into one step, so that
\* tasks interleave in the middle of a block
CopyChunk == 1000

\* random-access ranges of every size 0..MaxSize are queried
MaxSize == 4002

\* the underlying range of a view holds MaxViewLen elements of 0..MaxElem
MaxViewLen == 2

MaxElem == 1

\* largest argument of primes
MaxN == 25

\* ------------------------------------------------------------------------
\* Constants and helpers
\* ------------------------------------------------------------------------

block_size == 2000

Min(a, b) == IF a <= b THEN a ELSE b

\* content of a slot of uninitialized storage (no element has this value)
Uninit == 0 - 1

\* no task has copied yet
NoTask == 0 - 1

\* a view not constructed yet
NoStore == [storage |-> "none", held |-> <<>>, seen |-> <<>>]

\* the caller's named range and no view over it
NoView ==
  [orig |-> <<>>, was |-> <<>>, given |-> <<>>, lv |-> NoStore,
   tv |-> NoStore]

\* primes has not been called
NoSieve ==
  [n |-> 0, sqrt_n |-> 0, sqrt_primes |-> <<>>, flags |-> <<>>, pos |-> <<>>,
   primes |-> <<>>]

\* the element of a range at offset p (elements are distinct and differ
\* from their offsets)
ElemOf(rg, p) == 2 * p + 1

size(rg) == rg.n

RECURSIVE SumTo(_, _)
SumTo(s, k) == IF k = 0 THEN 0 ELSE s[k] + SumTo(s, k - 1)

\* the logical elements of a range, in order
Elements(rg) == [p \in 1..size(rg) |-> ElemOf(rg, p - 1)]

\* ------------------------------------------------------------------------
\* Block-iterable interface for random-access ranges
\* ------------------------------------------------------------------------

\* mutant: the test for the empty range is missing
num_blocks_from_size_nozero(n) == 1 + n \div block_size

\* mutant: rounds n / block_size down and adds one
num_blocks_from_size_floor(n) == IF n = 0 THEN 0 ELSE 1 + n \div block_size

num_blocks_from_size(n) == IF n = 0 THEN 0 ELSE 1 + (n - 1) \div block_size

\* mutant: the clamp to the size of the range is missing
begin_block_ra_nomin(rg, i) == i * block_size

\* offset of begin_block(r, i) from std::begin(r), random-access overload
begin_block_ra(rg, i) == Min(i * block_size, size(rg))

\* mutant: the clamp to the size of the range is missing
end_block_ra_nomin(rg, i) == (i + 1) * block_size

\* mutant: the block ends one element early
end_block_ra_short(rg, i) == Min((i + 1) * block_size - 1, size(rg))

\* offset of end_block(r, i) from std::begin(r), random-access overload
end_block_ra(rg, i) == Min((i + 1) * block_size, size(rg))

\* ------------------------------------------------------------------------
\* Accessors of a block-iterable view (members of the view's own class)
\* ------------------------------------------------------------------------

get_num_blocks(rg) == Len(rg.lens)

get_begin_block(rg, i) == SumTo(rg.lens, Min(i, Len(rg.lens)))

get_end_block(rg, i) == SumTo(rg.lens, Min(i + 1, Len(rg.lens)))

\* ------------------------------------------------------------------------
\* Overload selection (enable_if on the range's classification)
\* ------------------------------------------------------------------------

\* enable_if_t<is_random_access_range_v<Range>>
ra_overload(rg) == rg.ra

\* mutant: the test that the range is not random-access is missing
bi_overload_unguarded(rg) == rg.bi

\* enable_if_t<!is_random_access_range_v<Range> &&
\*             is_block_iterable_range_v<Range>>
bi_overload(rg) == ~rg.ra /\ rg.bi

\* a call with this range compiles: some overload is enabled
has_overload(rg) == ra_overload(rg) \/ bi_overload(rg)

\* the overload a call with this range runs
overload_of(rg) ==
  IF ra_overload(rg) THEN "random_access" ELSE "block_iterable"

num_blocks(rg) ==
  IF ra_overload(rg) THEN num_blocks_from_size(size(rg))
  ELSE get_num_blocks(rg)

begin_block(rg, i) ==
  IF ra_overload(rg) THEN begin_block_ra(rg, i) ELSE get_begin_block(rg, i)

end_block(rg, i) ==
  IF ra_overload(rg) THEN end_block_ra(rg, i) ELSE get_end_block(rg, i)

\* ------------------------------------------------------------------------
\* The ranges the operations are applied to
\* ------------------------------------------------------------------------

\* the number of blocks the protocol prescribes for n elements:
\* ceil(n / block_size)
CeilBlocks(n) == (n + block_size - 1) \div block_size

\* block lengths a view may report: at most block_size, never empty
BlockLens == {1, block_size - 1, block_size}

BlockSeqs == UNION {[1..k -> BlockLens] : k \in 0..MaxBlocks}

\* block-iterable, non-random-access views that keep the protocol contract:
\* adjacent blocks of at most block_size elements that cover the view once,
\* ceil(n / block_size) of them
BlockIterableViews ==
  {[ra |-> FALSE, bi |-> TRUE, n |-> SumTo(l, Len(l)), lens |-> l] :
     l \in {s \in BlockSeqs : Len(s) = CeilBlocks(SumTo(s, Len(s)))}}

RandomAccessRanges(S) ==
  {[ra |-> TRUE, bi |-> FALSE, n |-> k, lens |-> <<>>] : k \in S}

\* every block but the last holds exactly block_size elements
FullBlocks(rg) ==
  \A k \in 1..Len(rg.lens) : k < Len(rg.lens) => rg.lens[k] = block_size

\* ------------------------------------------------------------------------
\* Queries of the block protocol (num_blocks, begin_block, end_block)
\* ------------------------------------------------------------------------

NoQuery ==
  [op |-> "none", i |-> 0, nb |-> 0, first |-> 0, last |-> 0, next |-> 0,
   elems |-> <<>>]

\* the elements of [begin_block(rg, i), end_block(rg, i)), in order
BlockElements(rg, i) ==
  [k \in 1..(end_block(rg, i) - begin_block(rg, i)) |->
     ElemOf(rg, begin_block(rg, i) + k - 1)]

\* the elements of blocks 0, 1, ..., k-1 enumerated in that order
RECURSIVE ConcatBlocks(_, _)
ConcatBlocks(rg, k) ==
  IF k = 0 THEN <<>> ELSE ConcatBlocks(rg, k - 1) \o BlockElements(rg, k - 1)

QueryRanges == RandomAccessRanges(0..MaxSize) \cup BlockIterableViews

InitBlocks ==
  /\ r \in QueryRanges
  /\ pc = "idle"
  /\ sz = 0
  /\ out = <<>>
  /\ wcount = <<>>
  /\ oob = {}
  /\ task = <<>>
  /\ lastw = NoTask
  /\ result = <<>>
  /\ q = NoQuery
  /\ again = <<>>
  /\ own = NoView
  /\ sieve = NoSieve
  /\ path = "none"

QueryNumBlocks ==
  /\ pc = "idle"
  /\ has_overload(r)
  /\ pc' = "queried"
  /\ q' = [NoQuery EXCEPT !.op = "num_blocks", !.nb = num_blocks(r)]
  /\ path' = overload_of(r)
  /\ UNCHANGED <<r, sz, out, wcount, oob, task, lastw, result,
                 again, own, sieve>>

\* begin_block and end_block of every valid block index, the sentinel
\* block num_blocks(r) included
QueryBlock(i) ==
  /\ pc = "idle"
  /\ has_overload(r)
  /\ pc' = "queried"
  /\ q' = [NoQuery EXCEPT !.op = "block", !.i = i, !.nb = num_blocks(r),
                          !.first = begin_block(r, i),
                          !.last = end_block(r, i),
                          !.next = begin_block(r, i + 1)]
  /\ path' = overload_of(r)
  /\ UNCHANGED <<r, sz, out, wcount, oob, task, lastw, result,
                 again, own, sieve>>

\* a consumer walks the blocks 0 .. num_blocks(r)-1 from begin to end
EnumerateBlocks ==
  /\ pc = "idle"
  /\ has_overload(r)
  /\ pc' = "queried"
  /\ q' = [NoQuery EXCEPT !.op = "enumerate", !.nb = num_blocks(r),
                          !.elems = ConcatBlocks(r, num_blocks(r))]
  /\ path' = overload_of(r)
  /\ UNCHANGED <<r, sz, out, wcount, oob, task, lastw, result,
                 again, own, sieve>>

NextBlocks ==
  \/ QueryNumBlocks
  \/ \E i \in 0..num_blocks(r) : QueryBlock(i)
  \/ EnumerateBlocks

SpecBlocks == InitBlocks /\ [][NextBlocks]_vars

\* ------------------------------------------------------------------------
\* Properties of the block protocol (checked under SpecBlocks)
\* ------------------------------------------------------------------------

\* C6: for every range r of size n, num_blocks(r) = 0 iff n = 0, and
\* otherwise num_blocks(r) = ceil(n / 2000), i.e. the least k with
\* k * 2000 >= n.
C6_NumBlocksIsCeil ==
  q.op = "num_blocks" =>
    /\ (q.nb = 0) <=> (size(r) = 0)
    /\ size(r) > 0 => /\ q.nb * 2000 >= size(r)
                      /\ (q.nb - 1) * 2000 < size(r)

C6_Witness ==
  /\ q.op = "num_blocks"
  /\ r.ra
  /\ size(r) = 4001
  /\ q.nb = 3

\* C7: for a random-access range r and every block index i in
\* [0, num_blocks(r)], end_block(r, i) = begin_block(r, i+1), and
\* begin_block(r, num_blocks(r)) is the end of r (an empty sentinel block).
C7_BlocksAdjacent ==
  (q.op = "block" /\ r.ra) =>
    /\ q.last = q.next
    /\ q.i = q.nb => (q.first = size(r) /\ q.last = q.first)

C7_Witness ==
  /\ q.op = "block"
  /\ r.ra
  /\ q.nb = 3
  /\ q.i = q.nb
  /\ q.first = size(r)

\* C8: enumerating the elements of the blocks 0, 1, ..., num_blocks(r)-1 in
\* that order reproduces the elements of r, in order, none skipped and none
\* duplicated.
C8_Concatenation ==
  q.op = "enumerate" => q.elems = Elements(r)

C8_Witness ==
  /\ q.op = "enumerate"
  /\ r.ra
  /\ q.nb = 3
  /\ Len(q.elems) = 4001

\* C9: for a random-access range of size n, every block i < num_blocks holds
\* at least one and at most 2000 elements, every block but the last holds
\* exactly 2000 and the last one holds n - 2000 * (num_blocks - 1).
C9_BlockSizes ==
  (q.op = "block" /\ r.ra /\ q.i < q.nb) =>
    LET len == q.last - q.first IN
      /\ 1 <= len
      /\ len <= 2000
      /\ q.i < q.nb - 1 => len = 2000
      /\ q.i = q.nb - 1 => len = size(r) - 2000 * (q.nb - 1)

\* n = 4001: three blocks, the last of one element
C9_Witness ==
  /\ q.op = "block"
  /\ r.ra
  /\ size(r) = 4001
  /\ q.nb = 3
  /\ q.i = 2
  /\ q.last - q.first = 1

\* ------------------------------------------------------------------------
\* Conversion of delayed sequences to regular sequences: to_sequence
\* ------------------------------------------------------------------------

\* the views to_sequence is called on: the block-iterable views, and
\* random-access ranges of the same sizes
ToSeqRanges ==
  BlockIterableViews \cup RandomAccessRanges({v.n : v \in BlockIterableViews})

Init ==
  /\ r \in ToSeqRanges
  /\ pc = "idle"
  /\ sz = 0
  /\ out = <<>>
  /\ wcount = <<>>
  /\ oob = {}
  /\ task = <<>>
  /\ lastw = NoTask
  /\ result = <<>>
  /\ q = NoQuery
  /\ again = <<>>
  /\ own = NoView
  /\ sieve = NoSieve
  /\ path = "none"

\* parlay::to_sequence: the container constructed by bulk copy from the
\* elements of a random-access range
parlay_to_sequence(c) == [j \in 1..Len(c) |-> c[j]]

\* mutant: the range is forwarded after it was moved from
to_sequence_ra_moved(c) == parlay_to_sequence(<<>>)

\* random-access overload of to_sequence:
\* return parlay::to_sequence(std::forward<UnderlyingView>(v))
to_sequence_ra(c) == parlay_to_sequence(c)

ToSeqRandomAccess ==
  /\ pc = "idle"
  /\ ra_overload(r)
  /\ result' = to_sequence_ra(Elements(r))
  /\ pc' = "returned"
  /\ path' = "random_access"
  /\ UNCHANGED <<r, sz, out, wcount, oob, task, lastw, q,
                 again, own, sieve>>

\* block-iterable overload: auto sz = size(v); out = uninitialized(sz)
ToSeqAlloc ==
  /\ pc = "idle"
  /\ bi_overload(r)
  /\ sz' = size(r)
  /\ out' = [j \in 1..size(r) |-> Uninit]
  /\ wcount' = [j \in 1..size(r) |-> 0]
  /\ pc' = "allocated"
  /\ path' = "block_iterable"
  /\ UNCHANGED <<r, oob, task, lastw, result, q,
                 again, own, sieve>>

PendingTask == [st |-> "pending", first |-> 0, last |-> 0, dest |-> 0, cur |-> 0]

\* parallel_for(0, num_blocks(v), ...): one task per index of the range;
\* task i is task[i + 1]
ParallelFor ==
  /\ pc = "allocated"
  /\ task' = [b \in 1..num_blocks(r) |-> PendingTask]
  /\ pc' = "forked"
  /\ UNCHANGED <<r, sz, out, wcount, oob, lastw, result, q,
                 again, own, sieve, path>>

\* mutant: the offset advances by one element less than a block
dest_offset_short(i) == i * (block_size - 1)

\* mutant: the block index is used as the offset
dest_offset_index(i) == i

\* mutant: the offset of the following block is used
dest_offset_next(i) == (i + 1) * block_size

\* out.begin() + i * block_size, as an index of out
dest_offset(i) == i * block_size

\* task i evaluates the three arguments of std::uninitialized_copy
BlockTaskStart(i) ==
  /\ pc = "forked"
  /\ task[i + 1].st = "pending"
  /\ task' = [task EXCEPT ![i + 1] =
                [st |-> "running", first |-> begin_block(r, i),
                 last |-> end_block(r, i), dest |-> dest_offset(i),
                 cur |-> 0]]
  /\ UNCHANGED <<r, pc, sz, out, wcount, oob, lastw, result, q,
                 again, own, sieve, path>>

\* the output indices the next step of a running task constructs
ChunkLo(t) == t.dest + t.cur

\* mutant: the copy loop does not advance
ChunkHi_stalled(t) == t.dest + t.cur - 1

ChunkHi(t) == t.dest + t.cur + Min(CopyChunk, t.last - t.first - t.cur) - 1

\* std::uninitialized_copy: construct the next elements of the block in
\* place; an index outside out is written outside its storage
BlockTaskCopy(i) ==
  LET t == task[i + 1]
      lo == ChunkLo(t) + 1
      hi == ChunkHi(t) + 1
      in == Min(hi, sz)
      shift == t.first - t.dest - 1
  IN
  /\ pc = "forked"
  /\ t.st = "running"
  /\ t.first + t.cur < t.last
  /\ out' = IF lo > sz THEN out
            ELSE SubSeq(out, 1, lo - 1)
                 \o [k \in 1..(in - lo + 1) |-> ElemOf(r, lo + k - 1 + shift)]
                 \o SubSeq(out, in + 1, sz)
  /\ wcount' = IF lo > sz THEN wcount
               ELSE SubSeq(wcount, 1, lo - 1)
                    \o [k \in 1..(in - lo + 1) |-> wcount[lo + k - 1] + 1]
                    \o SubSeq(wcount, in + 1, sz)
  /\ oob' = oob \cup {x \in (lo - 1)..(hi - 1) : x >= sz}
  /\ task' = [task EXCEPT ![i + 1].cur = hi - t.dest]
  /\ lastw' = i
  /\ UNCHANGED <<r, pc, sz, result, q,
                 again, own, sieve, path>>

\* a write outside the storage of out is undefined behaviour: it may also
\* end the process
BlockTaskFault(i) ==
  LET t == task[i + 1] IN
  /\ pc = "forked"
  /\ t.st = "running"
  /\ t.first + t.cur < t.last
  /\ ChunkHi(t) >= sz
  /\ pc' = "crashed"
  /\ UNCHANGED <<r, sz, out, wcount, oob, task, lastw, result, q,
                 again, own, sieve, path>>

\* mutant: the elements of block i are taken out of the view
source_after_copy_consumed(rg, i) ==
  [rg EXCEPT !.n = rg.n - rg.lens[i + 1], !.lens[i + 1] = 0]

\* the view after std::uninitialized_copy has read block i through its
\* iterators: the elements are copied, not moved
source_after_copy(rg, i) == rg

\* std::uninitialized_copy reached the end of the block
BlockTaskEnd(i) ==
  LET t == task[i + 1] IN
  /\ pc = "forked"
  /\ t.st = "running"
  /\ t.first + t.cur = t.last
  /\ task' = [task EXCEPT ![i + 1].st = "done"]
  /\ r' = source_after_copy(r, i)
  /\ UNCHANGED <<pc, sz, out, wcount, oob, lastw, result, q,
                 again, own, sieve, path>>

\* parallel_for returns once every invocation has completed
ParallelForJoin ==
  /\ pc = "forked"
  /\ \A b \in 1..Len(task) : task[b].st = "done"
  /\ pc' = "joined"
  /\ UNCHANGED <<r, sz, out, wcount, oob, task, lastw, result, q,
                 again, own, sieve, path>>

\* mutant: out is returned while the batch is still in flight
ReturnReadyEarly == pc \in {"forked", "joined"}

\* return out; follows the call of parallel_for
ReturnReady == pc = "joined"

ToSeqReturn ==
  /\ ReturnReady
  /\ result' = out
  /\ pc' = "returned"
  /\ UNCHANGED <<r, sz, out, wcount, oob, task, lastw, q,
                 again, own, sieve, path>>

\* to_sequence applied to the container a call of to_sequence returned (a
\* parlay::sequence is a random-access range)
ToSeqAgain ==
  /\ pc = "returned"
  /\ again' = to_sequence_ra(result)
  /\ pc' = "rematerialized"
  /\ UNCHANGED <<r, sz, out, wcount, oob, task, lastw, result, q, own,
                 sieve, path>>

Next ==
  \/ ToSeqRandomAccess
  \/ ToSeqAlloc
  \/ ParallelFor
  \/ \E i \in 0..(Len(task) - 1) : BlockTaskStart(i)
  \/ \E i \in 0..(Len(task) - 1) : BlockTaskCopy(i)
  \/ \E i \in 0..(Len(task) - 1) : BlockTaskFault(i)
  \/ \E i \in 0..(Len(task) - 1) : BlockTaskEnd(i)
  \/ ParallelForJoin
  \/ ToSeqReturn
  \/ ToSeqAgain

Spec == Init /\ [][Next]_vars

\* ------------------------------------------------------------------------
\* Reference: the block copies of to_sequence run one after the other
\* ------------------------------------------------------------------------

\* buf after std::uninitialized_copy(begin_block(v, i), end_block(v, i),
\* out.begin() + i * block_size) has run to its end (writes outside buf are
\* not part of buf)
WriteBlock(buf, rg, i) ==
  LET first == begin_block(rg, i)
      lo == dest_offset(i) + 1
      hi == dest_offset(i) + (end_block(rg, i) - first)
      in == Min(hi, Len(buf))
  IN IF lo > Len(buf) \/ hi < lo THEN buf
     ELSE SubSeq(buf, 1, lo - 1)
          \o [k \in 1..(in - lo + 1) |-> ElemOf(rg, first + k - 1)]
          \o SubSeq(buf, in + 1, Len(buf))

\* the loop body applied for i = 0, 1, ..., k-1 in this order
RECURSIVE SequentialFill(_, _)
SequentialFill(rg, k) ==
  IF k = 0 THEN [j \in 1..size(rg) |-> Uninit]
  ELSE WriteBlock(SequentialFill(rg, k - 1), rg, k - 1)

SequentialResult(rg) ==
  IF rg.ra THEN Elements(rg) ELSE SequentialFill(rg, num_blocks(rg))

\* the block-iterable overload has issued its batch and every task of it
\* has finished
BatchDone ==
  /\ ~r.ra
  /\ pc \in {"forked", "joined", "returned", "rematerialized"}
  /\ \A b \in 1..Len(task) : task[b].st = "done"

\* ------------------------------------------------------------------------
\* Properties of to_sequence (checked under Spec)
\* ------------------------------------------------------------------------

\* C1 (as claimed): for every classified view, also a block-iterable view
\* that keeps only the protocol contract, to_sequence returns size(v)
\* elements and the i-th one is the i-th logical element of v.
C1_AnyViewMaterialized ==
  pc = "returned" => (Len(result) = size(r) /\ result = Elements(r))

\* C1 (amended): the same, for random-access ranges and for block-iterable
\* views in which every block but the last holds exactly block_size elements.
C1_FullBlocksMaterialized ==
  (pc = "returned" /\ (r.ra \/ FullBlocks(r))) =>
    (Len(result) = size(r) /\ result = Elements(r))

C1_Witness ==
  /\ pc = "returned"
  /\ ~r.ra
  /\ Len(r.lens) >= 2
  /\ FullBlocks(r)
  /\ result = Elements(r)

\* C2 (as claimed): in to_sequence on a block-iterable view no output slot is
\* ever written more than once, and once all block tasks have finished no
\* slot is left unwritten.
C2_ExactlyOneWrite ==
  /\ \A j \in 1..Len(wcount) : wcount[j] <= 1
  /\ BatchDone => \A j \in 1..sz : wcount[j] = 1

\* C2 (amended): no slot is ever written more than once; once all block
\* tasks have finished no slot is left unwritten, when every block but the
\* last holds exactly block_size elements.
C2_ExactlyOneWriteFullBlocks ==
  /\ \A j \in 1..Len(wcount) : wcount[j] <= 1
  /\ (BatchDone /\ FullBlocks(r)) =>
       (Len(wcount) = size(r) /\ \A j \in 1..sz : wcount[j] = 1)

C2_Witness ==
  /\ BatchDone
  /\ Len(r.lens) >= 2
  /\ FullBlocks(r)
  /\ sz = size(r)
  /\ \A j \in 1..sz : wcount[j] = 1

\* C3: two distinct block tasks write disjoint sets of output indices and
\* read disjoint sets of source offsets, in every interleaving (the tasks
\* take no lock: no step of a task waits for another task).
C3_TasksDisjoint ==
  \A a, b \in 1..Len(task) :
    (a # b /\ task[a].st # "pending" /\ task[b].st # "pending") =>
      LET ta == task[a]
          tb == task[b]
          la == ta.last - ta.first
          lb == tb.last - tb.first
      IN /\ (ta.dest + la <= tb.dest \/ tb.dest + lb <= ta.dest)
         /\ (ta.last <= tb.first \/ tb.last <= ta.first)

\* two tasks are both in the middle of their copies
C3_Witness ==
  \E a, b \in 1..Len(task) :
    /\ a # b
    /\ task[a].st = "running" /\ task[a].cur > 0
    /\ task[a].first + task[a].cur < task[a].last
    /\ task[b].st = "running" /\ task[b].cur > 0
    /\ task[b].first + task[b].cur < task[b].last

\* C4: the container to_sequence returns does not depend on the schedule of
\* the block tasks: whatever the interleaving, it is the container that the
\* copies run one after the other in index order produce.
C4_ScheduleIndependent ==
  pc = "returned" => result = SequentialResult(r)

\* a run in which block 0 was copied after block 1
C4_Witness ==
  /\ pc = "returned"
  /\ ~r.ra
  /\ Len(r.lens) >= 2
  /\ lastw = 0
  /\ result = SequentialResult(r)

\* C5: to_sequence returns only after every task of its batch has completed:
\* in no state has the call returned while a task is pending or running, and
\* the returned container is the buffer after the last write.
C5_ReturnAfterJoin ==
  (pc = "returned" /\ ~r.ra) =>
    /\ Len(task) = num_blocks(r)
    /\ \A b \in 1..Len(task) :
         /\ task[b].st = "done"
         /\ task[b].first + task[b].cur = task[b].last
    /\ result = out

C5_Witness ==
  /\ pc = "returned"
  /\ ~r.ra
  /\ Len(task) >= 2
  /\ \A b \in 1..Len(task) : task[b].st = "done"

\* C10: for an empty range num_blocks is 0, and to_sequence returns an
\* empty container, issues no block task and writes nothing.
C10_EmptyRange ==
  size(r) = 0 =>
    /\ num_blocks(r) = 0
    /\ Len(task) = 0
    /\ oob = {}
    /\ Len(out) = 0
    /\ pc # "crashed"
    /\ pc = "returned" => result = <<>>

C10_Witness ==
  /\ size(r) = 0
  /\ ~r.ra
  /\ pc = "returned"
  /\ Len(task) = 0
  /\ result = <<>>

\* ------------------------------------------------------------------------
\* Base class for BID views: block_iterable_view_base_data
\* own.orig is the caller's named range; own.lv is a view constructed from
\* it as an lvalue, when its contents were own.was; own.tv is a view
\* constructed from a temporary holding own.given
\* ------------------------------------------------------------------------

Contents == [1..MaxViewLen -> 0..MaxElem]

\* mutant: the underlying view is always kept as a value member
view_storage_type_value(is_lvalue_reference) == "value"

\* view_storage_type<T>: a reference_wrapper for an lvalue reference, the
\* value itself otherwise
view_storage_type(is_lvalue_reference) ==
  IF is_lvalue_reference THEN "reference_wrapper" ELSE "value"

\* view_m(static_cast<UnderlyingView&&>(v)): a value member is constructed
\* from v, a reference_wrapper is bound to v
view_m(is_lvalue_reference, v) ==
  [storage |-> view_storage_type(is_lvalue_reference),
   held |-> IF view_storage_type(is_lvalue_reference) = "value"
            THEN v ELSE <<>>,
   seen |-> <<>>]

\* base_view(): return view_m; a reference_wrapper converts to the range
\* it is bound to
base_view(view, bound) ==
  IF view.storage = "reference_wrapper" THEN bound ELSE view.held

InitView ==
  /\ r \in RandomAccessRanges({0})
  /\ pc = "idle"
  /\ sz = 0
  /\ out = <<>>
  /\ wcount = <<>>
  /\ oob = {}
  /\ task = <<>>
  /\ lastw = NoTask
  /\ result = <<>>
  /\ q = NoQuery
  /\ again = <<>>
  /\ own \in {[NoView EXCEPT !.orig = c] : c \in Contents}
  /\ sieve = NoSieve
  /\ path = "none"

\* block_iterable_view_base_data<Range&>(range)
ConstructFromLvalue ==
  /\ own.lv.storage = "none"
  /\ own' = [own EXCEPT !.lv = view_m(TRUE, own.orig), !.was = own.orig]
  /\ UNCHANGED <<r, pc, sz, out, wcount, oob, task, lastw, result, q,
                 again, sieve, path>>

\* block_iterable_view_base_data<Range>(Range{c}): the temporary is moved
\* in
ConstructFromTemporary(c) ==
  /\ own.tv.storage = "none"
  /\ own' = [own EXCEPT !.tv = view_m(FALSE, c), !.given = c]
  /\ UNCHANGED <<r, pc, sz, out, wcount, oob, task, lastw, result, q,
                 again, sieve, path>>

\* the caller writes x to element k of its named range
MutateOriginal(k, x) ==
  /\ own.orig[k] # x
  /\ own' = [own EXCEPT !.orig[k] = x]
  /\ UNCHANGED <<r, pc, sz, out, wcount, oob, task, lastw, result, q,
                 again, sieve, path>>

\* the contents base_view() of both views show at this moment
ObserveBaseViews ==
  /\ own.lv.storage # "none"
  /\ own.tv.storage # "none"
  /\ own' = [own EXCEPT !.lv.seen = base_view(own.lv, own.orig),
                        !.tv.seen = base_view(own.tv, own.given)]
  /\ pc' = "observed"
  /\ UNCHANGED <<r, sz, out, wcount, oob, task, lastw, result, q,
                 again, sieve, path>>

\* a later mutation makes the observation stale
Forget ==
  /\ pc = "observed"
  /\ pc' = "idle"
  /\ UNCHANGED <<r, sz, out, wcount, oob, task, lastw, result, q,
                 again, own, sieve, path>>

NextView ==
  \/ ConstructFromLvalue
  \/ \E c \in Contents : ConstructFromTemporary(c)
  \/ \E k \in 1..MaxViewLen, x \in 0..MaxElem : pc = "idle" /\ MutateOriginal(k, x)
  \/ ObserveBaseViews
  \/ Forget

SpecView == InitView /\ [][NextView]_vars

\* ------------------------------------------------------------------------
\* Properties of the view base class (checked under SpecView)
\* ------------------------------------------------------------------------

\* C11: after any sequence of in-place mutations of the original range,
\* base_view() of the view constructed from the named range (lvalue) shows
\* the range's current contents, and base_view() of the view constructed
\* from a temporary shows the contents it was given at construction.
C11_OwnershipConsistency ==
  pc = "observed" =>
    /\ own.lv.seen = own.orig
    /\ own.tv.seen = own.given

\* the temporary was a copy of the range, which was mutated afterwards
C11_Witness ==
  /\ pc = "observed"
  /\ own.given = own.was
  /\ own.orig # own.was
  /\ own.lv.seen = own.orig
  /\ own.tv.seen = own.was

\* ------------------------------------------------------------------------
\* Further properties of to_sequence (checked under Spec)
\* ------------------------------------------------------------------------

BothKindRanges == {[v EXCEPT !.ra = TRUE] : v \in BlockIterableViews}

\* ranges that are neither random-access nor block-iterable
NeitherKindRanges ==
  {[ra |-> FALSE, bi |-> FALSE, n |-> k, lens |-> <<>>] : k \in 0..MaxBlocks}

ClassifiedRanges ==
  ToSeqRanges \cup BothKindRanges \cup NeitherKindRanges

InitSelect ==
  /\ r \in ClassifiedRanges
  /\ pc = "idle"
  /\ sz = 0
  /\ out = <<>>
  /\ wcount = <<>>
  /\ oob = {}
  /\ task = <<>>
  /\ lastw = NoTask
  /\ result = <<>>
  /\ q = NoQuery
  /\ again = <<>>
  /\ own = NoView
  /\ sieve = NoSieve
  /\ path = "none"

NextSelect ==
  \/ NextBlocks
  \/ Next

SpecSelect == InitSelect /\ [][NextSelect]_vars

\* C13: a random-access range always takes the random-access overload, even
\* when it also offers the block-iterable accessors; a range that is
\* block-iterable and not random-access takes the block-iterable overload; a
\* range that is neither takes none; and no range has two applicable
\* overloads.
C13_OverloadSelection ==
  /\ ~(ra_overload(r) /\ bi_overload(r))
  /\ r.ra => /\ ra_overload(r)
             /\ path \in {"none", "random_access"}
             /\ pc \in {"idle", "queried", "returned", "rematerialized"}
             /\ q.op = "num_blocks" => q.nb = num_blocks_from_size(size(r))
             /\ q.op = "block" => /\ q.first = begin_block_ra(r, q.i)
                                  /\ q.last = end_block_ra(r, q.i)
             /\ pc = "returned" => (sz = 0 /\ result = Elements(r))
  /\ (~r.ra /\ r.bi) => /\ bi_overload(r)
                        /\ path \in {"none", "block_iterable"}
                        /\ q.op = "num_blocks" => q.nb = get_num_blocks(r)
                        /\ q.op = "block" =>
                             /\ q.first = get_begin_block(r, q.i)
                             /\ q.last = get_end_block(r, q.i)
  /\ (~r.ra /\ ~r.bi) => /\ ~has_overload(r)
                         /\ path = "none"
                         /\ pc = "idle"
                         /\ q = NoQuery

\* a random-access range whose own accessors would have answered otherwise
C13_Witness ==
  /\ r.ra
  /\ r.bi
  /\ ~FullBlocks(r)
  /\ q.op = "block"
  /\ q.i = 1
  /\ path = "random_access"
  /\ q.first = begin_block_ra(r, 1)
  /\ q.first # get_begin_block(r, 1)

\* ------------------------------------------------------------------------
\* Termination of to_sequence (checked under SpecFair)
\* ------------------------------------------------------------------------

\* the steps of the thread that called to_sequence
CallerStep ==
  \/ ToSeqRandomAccess
  \/ ToSeqAlloc
  \/ ParallelFor
  \/ ParallelForJoin
  \/ ToSeqReturn

\* the steps of the task parallel_for issued for index i
TaskStep(i) ==
  /\ i < Len(task)
  /\ \/ BlockTaskStart(i)
     \/ BlockTaskCopy(i)
     \/ BlockTaskFault(i)
     \/ BlockTaskEnd(i)

\* the caller keeps running and the scheduler eventually runs every task
\* it was given
Fairness ==
  /\ WF_vars(CallerStep)
  /\ \A i \in 0..(MaxBlocks - 1) : WF_vars(TaskStep(i))

SpecFair == Init /\ [][Next]_vars /\ Fairness

Max(a, b) == IF a >= b THEN a ELSE b

\* a / b on long: the quotient is truncated towards zero
c_div(a, b) == IF a >= 0 THEN a \div b ELSE 0 - ((0 - a) \div b)

\* long sqrt_n = std::sqrt(n): the square root, truncated to long
c_sqrt(n) == CHOOSE s \in 0..n : s * s <= n /\ (s + 1) * (s + 1) > n

\* long start = sqrt_n * i
block_start(sqrt_n, i) == sqrt_n * i

\* long end = min(start + sqrt_n, n+1)
block_end(n, sqrt_n, i) == Min(block_start(sqrt_n, i) + sqrt_n, n + 1)

\* mutant: the sieve starts at the first multiple in the block, the prime
\* itself included
first_multiple_nomax(start, p) == (c_div(start - 1, p) + 1) * p

\* long first = max(2*p, (((start-1)/p)+1)*p)
first_multiple(start, p) == Max(2 * p, (c_div(start - 1, p) + 1) * p)

\* for (long k = first; k < end; k += p): the values of k, in order
RECURSIVE multiples(_, _, _)
multiples(k, end, p) ==
  IF k < end THEN <<k>> \o multiples(k + p, end, p) ELSE <<>>

\* the indices block i unsets, in program order, from prime number j on
RECURSIVE block_writes(_, _, _, _, _)
block_writes(n, sqrt_n, sqrt_primes, i, j) ==
  IF j > Len(sqrt_primes) THEN <<>>
  ELSE multiples(first_multiple(block_start(sqrt_n, i), sqrt_primes[j]),
                 block_end(n, sqrt_n, i), sqrt_primes[j])
       \o block_writes(n, sqrt_n, sqrt_primes, i, j + 1)

\* flags[k] = false for every k of ks, in order; flags[k] is flags[k + 1]
\* of the model
RECURSIVE unset(_, _)
unset(flags, ks) ==
  IF ks = <<>> THEN flags
  ELSE unset([flags EXCEPT ![Head(ks) + 1] = FALSE], Tail(ks))

\* the blocks 0 .. nb-1 run one after the other
RECURSIVE sieve_blocks(_, _, _, _, _)
sieve_blocks(flags, n, sqrt_n, sqrt_primes, nb) ==
  IF nb = 0 THEN flags
  ELSE unset(sieve_blocks(flags, n, sqrt_n, sqrt_primes, nb - 1),
             block_writes(n, sqrt_n, sqrt_primes, nb - 1, 1))

\* parlay::filter(parlay::iota(m), flags[i]) over the first m indices
RECURSIVE filter_iota(_, _)
filter_iota(flags, m) ==
  IF m = 0 THEN <<>>
  ELSE filter_iota(flags, m - 1) \o (IF flags[m] THEN <<m - 1>> ELSE <<>>)

\* a call of primes whose blocks run one after the other (the recursive
\* call has returned before the caller issues its own blocks)
RECURSIVE primes(_)
primes(n) ==
  IF n < 2 THEN <<>>
  ELSE LET sqrt_n == c_sqrt(n)
           sqrt_primes == primes(sqrt_n)
           flags == sieve_blocks([k \in 1..(n + 1) |-> TRUE], n, sqrt_n,
                                 sqrt_primes, n \div sqrt_n + 1)
       IN filter_iota([flags EXCEPT ![1] = FALSE, ![2] = FALSE], n + 1)

InitPrimes ==
  /\ r \in RandomAccessRanges({0})
  /\ pc = "idle"
  /\ sz = 0
  /\ out = <<>>
  /\ wcount = <<>>
  /\ oob = {}
  /\ task = <<>>
  /\ lastw = NoTask
  /\ result = <<>>
  /\ q = NoQuery
  /\ again = <<>>
  /\ own = NoView
  /\ sieve \in {[NoSieve EXCEPT !.n = n] : n \in (0 - 1)..MaxN}
  /\ path = "none"

\* if (n < 2) return parlay::sequence<long>()
PrimesBaseCase ==
  /\ pc = "idle"
  /\ sieve.n < 2
  /\ sieve' = [sieve EXCEPT !.primes = <<>>]
  /\ pc' = "returned"
  /\ UNCHANGED <<r, sz, out, wcount, oob, task, lastw, result, q,
                 again, own, path>>

\* sqrt_n, sqrt_primes, flags(n+1, true) and the call of parallel_for over
\* n/sqrt_n + 1 blocks
PrimesFork ==
  /\ pc = "idle"
  /\ sieve.n >= 2
  /\ sieve' = [sieve EXCEPT
                 !.sqrt_n = c_sqrt(sieve.n),
                 !.sqrt_primes = primes(c_sqrt(sieve.n)),
                 !.flags = [k \in 1..(sieve.n + 1) |-> TRUE],
                 !.pos = [b \in 1..(sieve.n \div c_sqrt(sieve.n) + 1) |-> 0]]
  /\ pc' = "sieving"
  /\ UNCHANGED <<r, sz, out, wcount, oob, task, lastw, result, q,
                 again, own, path>>

\* the writes of block i
writes_of(i) ==
  block_writes(sieve.n, sieve.sqrt_n, sieve.sqrt_primes, i, 1)

\* block i performs its next flags[k] = false
SieveStep(i) ==
  /\ pc = "sieving"
  /\ sieve.pos[i + 1] < Len(writes_of(i))
  /\ sieve' = [sieve EXCEPT
                 !.flags[writes_of(i)[sieve.pos[i + 1] + 1] + 1] = FALSE,
                 !.pos[i + 1] = sieve.pos[i + 1] + 1]
  /\ UNCHANGED <<r, pc, sz, out, wcount, oob, task, lastw, result, q,
                 again, own, path>>

\* parallel_for returns once every block has run to its end
SieveJoin ==
  /\ pc = "sieving"
  /\ \A b \in 1..Len(sieve.pos) : sieve.pos[b] = Len(writes_of(b - 1))
  /\ pc' = "sieved"
  /\ UNCHANGED <<r, sz, out, wcount, oob, task, lastw, result, q,
                 again, own, sieve, path>>

\* flags[0] = flags[1] = false; return filter(iota(n+1), flags[i])
PrimesFilter ==
  /\ pc = "sieved"
  /\ sieve' = [sieve EXCEPT
                 !.flags[1] = FALSE,
                 !.flags[2] = FALSE,
                 !.primes = filter_iota([sieve.flags EXCEPT ![1] = FALSE,
                                                            ![2] = FALSE],
                                        sieve.n + 1)]
  /\ pc' = "returned"
  /\ UNCHANGED <<r, sz, out, wcount, oob, task, lastw, result, q,
                 again, own, path>>

NextPrimes ==
  \/ PrimesBaseCase
  \/ PrimesFork
  \/ \E i \in 0..(Len(sieve.pos) - 1) : SieveStep(i)
  \/ SieveJoin
  \/ PrimesFilter

SpecPrimes == InitPrimes /\ [][NextPrimes]_vars

IsPrime(p) == p >= 2 /\ \A d \in 2..(p - 1) : p % d # 0

\* C15: primes(n) returns exactly the prime numbers p with 2 <= p <= n, each
\* once and in increasing order, and the empty sequence for n < 2, whatever
\* the interleaving of the writes of the blocks.
C15_PrimesUpToN ==
  pc = "returned" =>
    /\ \A j \in 1..Len(sieve.primes) :
         IsPrime(sieve.primes[j]) /\ sieve.primes[j] <= sieve.n
    /\ \A p \in 2..sieve.n :
         IsPrime(p) => \E j \in 1..Len(sieve.primes) : sieve.primes[j] = p
    /\ \A j \in 1..(Len(sieve.primes) - 1) :
         sieve.primes[j] < sieve.primes[j + 1]
    /\ sieve.n < 2 => sieve.primes = <<>>

C15_Witness ==
  /\ pc = "returned"
  /\ sieve.n = 25
  /\ sieve.sqrt_primes = <<2, 3, 5>>
  /\ Len(sieve.primes) = 9
  /\ sieve.primes[9] = 23

\* ------------------------------------------------------------------------
\* The copy tasks of to_sequence (checked under Spec)
\* ------------------------------------------------------------------------

\* C16: to_sequence on a block-iterable view issues exactly one copy task
\* for each block index i in [0, num_blocks(v)) and no other, and task i
\* writes the elements of block i, in order, to the consecutive output
\* positions starting at offset i * 2000.
C16_OneTaskPerBlock ==
  (path = "block_iterable" /\ pc # "allocated") =>
    /\ Len(task) = get_num_blocks(r)
    /\ \A i \in 0..(Len(task) - 1) :
         task[i + 1].st # "pending" =>
           /\ task[i + 1].dest = i * 2000
           /\ task[i + 1].first = get_begin_block(r, i)
           /\ task[i + 1].last = get_end_block(r, i)
           /\ task[i + 1].first + task[i + 1].cur <= task[i + 1].last
           /\ task[i + 1].st = "done" =>
                task[i + 1].first + task[i + 1].cur = task[i + 1].last
           /\ \A j \in 0..(task[i + 1].cur - 1) :
                IF i * 2000 + j < sz
                THEN out[i * 2000 + j + 1] = ElemOf(r, task[i + 1].first + j)
                ELSE (i * 2000 + j) \in oob

\* task 1 has copied part of the second block of a two-block view
C16_Witness ==
  /\ pc = "forked"
  /\ Len(task) = 2
  /\ task[2].st = "running"
  /\ task[2].dest = 2000
  /\ task[2].cur > 0
  /\ task[2].first + task[2].cur < task[2].last
  /\ out[2001] = ElemOf(r, task[2].first)

\* C17 as stated: for every block-iterable view that keeps the protocol
\* contract, every write of a block task lands at an output index in
\* [0, size(v)).
C17_WritesInBounds ==
  /\ oob = {}
  /\ pc # "crashed"
  /\ \A b \in 1..Len(task) :
       task[b].st # "pending" =>
         task[b].dest + (task[b].last - task[b].first) <= sz

\* C17: for every block-iterable view that keeps the protocol contract and
\* in which every block but the last holds block_size elements, every write
\* of a block task lands at an output index in [0, size(v)).
C17_WritesInBoundsFullBlocks ==
  FullBlocks(r) =>
    /\ oob = {}
    /\ pc # "crashed"
    /\ \A b \in 1..Len(task) :
         task[b].st # "pending" =>
           /\ task[b].dest >= 0
           /\ task[b].dest + (task[b].last - task[b].first) <= sz

\* both tasks of a view of 2000 + 1999 elements have written their blocks
C17_Witness ==
  /\ pc = "joined"
  /\ FullBlocks(r)
  /\ Len(task) = 2
  /\ sz = 3999
  /\ task[2].dest + task[2].cur = sz
  /\ oob = {}

\* C18: from the start of a call of to_sequence on a block-iterable view
\* until it returns, no step of the caller or of a task changes the
\* elements, the size or the block boundaries of the source view.
C18_SourceUnchanged ==
  [][(~r.ra /\ r.bi) =>
       /\ r' = r
       /\ Elements(r') = Elements(r)
       /\ size(r') = size(r)
       /\ \A i \in 0..Len(r.lens) :
            /\ get_begin_block(r', i) = get_begin_block(r, i)
            /\ get_end_block(r', i) = get_end_block(r, i)]_vars

\* the call has returned and the view still has its two blocks
C18_Witness ==
  /\ pc = "returned"
  /\ path = "block_iterable"
  /\ Len(r.lens) = 2
  /\ size(r) = SumTo(r.lens, 2)
  /\ Len(result) = size(r)

====
